---------------------------- MODULE Spec2Model ----------------------------
(***************************************************************************)
(* The OutputList of piksi_tools/console/output_list.py: a capped list of  *)
(* LogItems (unfiltered_list), its filtered projection (filtered_list),    *)
(* the side buffer used while paused (_paused_buffer) and the optional     *)
(* log file.  Lists are newest-first: index 1 is the front (Python 0).     *)
(*                                                                         *)
(* Trait semantics the handlers rely on: assigning a list to a List trait  *)
(* stores a copy (so the buffers never alias), and a _<name>_changed       *)
(* handler runs only when the assigned value differs from the old one.     *)
(***************************************************************************)
EXTENDS Integers, Sequences, FiniteSets, TLC

\* ---- program constants (output_list.py) ----
LOG_ERROR == 3
LOG_WARN == 4
LOG_INFO == 6
LOG_DEBUG == 7
CONSOLE_LOG_LEVEL == -1

UNMASKABLE_LEVELS == {CONSOLE_LOG_LEVEL}
SYSLOG_LEVELS == {LOG_ERROR, LOG_WARN, LOG_INFO, LOG_DEBUG}

\* ---- bounds of the model ----
\* largest configured max_len explored (the program's default is 250)
MaxLen == 2
\* number of LogItems constructed in one run
MaxItems == 4
\* number of requests.post calls in one run of the reporter
MaxPosts == 2
\* number of direct append_truncate calls and max_len assignments in one run
MaxDirect == 1

\* values max_len is configured to: the trait takes any integer
MaxLens == (0 - MaxLen)..MaxLen
\* the values among them that can be a length
SizedLens == 0..MaxLen
\* levels a device message is written with
WriteLevels == {LOG_ERROR, LOG_WARN}
\* characters str.isspace() accepts, among those used
Whitespace == {" ", "\n"}
\* the strings written: empty, whitespace only, text with a trailing blank
Messages == {<<>>, <<" ">>, <<"a", " ">>}

VARIABLES
    unfiltered_list,   \* the live buffer (output_list.py:184)
    paused_buffer,     \* _paused_buffer (:186)
    filtered_list,     \* the filtered view (:188)
    log_level_filter,  \* the threshold (:190)
    max_len,           \* configured maximum (:192)
    paused,            \* the paused flag (:197)
    tfile,             \* whether a log file was opened (:199-205)
    logfile_closed,    \* close() has closed the log file (:281-283)
    logfile,           \* the lines written to the log file, in order (:231)
    nitems,            \* number of LogItems constructed so far (:223, :245)
    exception,         \* the exception the last call let out to its caller,
                       \* "none" if it returned (:231, :264-267)
    last_call,         \* the operation invoked last, with its first argument
    pre_pause,         \* history: what is left of the live buffer the pause began with
    pause_added,       \* history: items created during the pause and not cleared, newest first
    pause_cleared,     \* history: clear() was called during the pause
    pause_refiltered,  \* history: the threshold was changed during the pause
    max_len_none,      \* max_len was set to None; max_len then holds no value (:192)
    ndirect,           \* number of direct append_truncate calls and max_len
                       \* assignments made so far
    \* ---- settings_report.py ----
    settings,          \* SettingsReport._settings, the constructor's argument (:19)
    dict_iteritems,    \* whether the interpreter's dict has iteritems() (Python 2)
    report_call,       \* the reporter function called last, with its arguments
                       \* and what requests.post did
    printed,           \* the lines the last call printed, in order
    result,            \* how the last call ended: "returned" or the exception
                       \* that reached its caller
    posts              \* the bodies POSTed so far, in order

buffers == <<unfiltered_list, paused_buffer, filtered_list>>
history == <<pre_pause, pause_added, pause_cleared, pause_refiltered>>
\* the state of the OutputList, apart from max_len_none
ovars == <<unfiltered_list, paused_buffer, filtered_list, log_level_filter,
           max_len, paused, tfile, logfile_closed, logfile, nitems, exception,
           last_call,
           pre_pause, pause_added, pause_cleared, pause_refiltered>>
\* the state of the settings reporter
rvars == <<settings, dict_iteritems, report_call, printed, result, posts>>
vars == <<ovars, max_len_none, ndirect, rvars>>

\* the last call raised: its caller got an exception
raised == exception # "none"

\* ---- helpers ----
\* str.isspace(): non-empty and every character is whitespace
isspace(s) == Len(s) > 0 /\ \A i \in 1..Len(s) : s[i] \in Whitespace

\* the guard without its isspace() test
accepted_nonempty(s) == Len(s) > 0

\* the guard of write / write_level: "s and not s.isspace()"
accepted(s) == Len(s) > 0 /\ ~isspace(s)

\* LogItem.__init__: a fresh item; timestamp is the logical creation time,
\* which also tells two instances with equal text and level apart
LogItem(msg, level) == [msg |-> msg, log_level |-> level, timestamp |-> nitems + 1]

\* matches_log_level_filter passing syslog levels only
matches_syslog_only(item, log_level) ==
    0 <= item.log_level /\ item.log_level <= log_level

\* matches_log_level_filter with a strict comparison
matches_strictly(item, log_level) == item.log_level < log_level

\* LogItem.matches_log_level_filter
matches_log_level_filter(item, log_level) == item.log_level <= log_level

\* LogItem.print_to_log: the line "timestamp,level,msg\n" as its three fields
print_to_log(item) == <<item.timestamp, item.log_level, item.msg>>

\* the assert of append_truncate fails
assert_fails(buffer) == Len(buffer) > max_len /\ Len(buffer) - max_len # 1

\* buffer.pop() fails: the buffer is longer than max_len and yet empty
pop_fails(buffer) == Len(buffer) > max_len /\ Len(buffer) = 0

\* what append_truncate raises: TypeError when max_len is None (an int is
\* neither ordered against None, Python 3, nor subtracted from it, Python 2),
\* AssertionError from its assert, IndexError from pop() on an empty list
append_truncate_exception(buffer) ==
    IF max_len_none THEN "TypeError"
    ELSE IF assert_fails(buffer) THEN "AssertionError"
    ELSE IF pop_fails(buffer) THEN "IndexError"
    ELSE "none"

\* append_truncate raises
append_truncate_raises(buffer) == append_truncate_exception(buffer) # "none"

\* append_truncate that never pops
append_truncate_no_pop(buffer, s) == <<s>> \o buffer

\* append_truncate popping the front (buffer.pop(0)) instead of the last item
append_truncate_pop_front(buffer, s) ==
    IF Len(buffer) > max_len
    THEN <<s>> \o Tail(buffer)
    ELSE <<s>> \o buffer

\* append_truncate, when its assert passes: pop the last item if the buffer
\* is longer than max_len, then insert at the front
append_truncate(buffer, s) ==
    IF Len(buffer) > max_len
    THEN <<s>> \o SubSeq(buffer, 1, Len(buffer) - 1)
    ELSE <<s>> \o buffer

\* the list comprehension without its condition
filter_items_all(buffer, log_level) == buffer

\* the list comprehension of _log_level_filter_changed
filter_items(buffer, log_level) ==
    SelectSeq(buffer, LAMBDA item : matches_log_level_filter(item, log_level))

\* no SettingsReport exists
ReportIdle ==
    /\ settings = <<>>
    /\ dict_iteritems = FALSE
    /\ report_call = [op |-> "none"]
    /\ printed = <<>>
    /\ result = "none"
    /\ posts = <<>>

\* ---- initial state: after OutputList(tfile, outdir) and configuration ----
\* the lists default to empty, paused to False and log_level_filter to the
\* first of SYSLOG_LEVELS' keys (LOG_ERROR); max_len is set once, to any integer
Init ==
    /\ unfiltered_list = <<>>
    /\ paused_buffer = <<>>
    /\ filtered_list = <<>>
    /\ log_level_filter = LOG_ERROR
    /\ max_len \in MaxLens
    /\ paused = FALSE
    /\ tfile \in BOOLEAN
    /\ logfile_closed = FALSE
    /\ logfile = <<>>
    /\ nitems = 0
    /\ exception = "none"
    /\ last_call = [op |-> "__init__", arg |-> <<>>]
    /\ pre_pause = <<>>
    /\ pause_added = <<>>
    /\ pause_cleared = FALSE
    /\ pause_refiltered = FALSE
    /\ max_len_none = FALSE
    /\ ndirect = 0
    /\ ReportIdle

\* the same, with max_len set to an integer that can be a length
InitSized ==
    /\ unfiltered_list = <<>>
    /\ paused_buffer = <<>>
    /\ filtered_list = <<>>
    /\ log_level_filter = LOG_ERROR
    /\ max_len \in SizedLens
    /\ paused = FALSE
    /\ tfile \in BOOLEAN
    /\ logfile_closed = FALSE
    /\ logfile = <<>>
    /\ nitems = 0
    /\ exception = "none"
    /\ last_call = [op |-> "__init__", arg |-> <<>>]
    /\ pre_pause = <<>>
    /\ pause_added = <<>>
    /\ pause_cleared = FALSE
    /\ pause_refiltered = FALSE
    /\ max_len_none = FALSE
    /\ ndirect = 0
    /\ ReportIdle

\* the same, with max_len set to None
InitUnset ==
    /\ unfiltered_list = <<>>
    /\ paused_buffer = <<>>
    /\ filtered_list = <<>>
    /\ log_level_filter = LOG_ERROR
    /\ max_len = 0
    /\ max_len_none = TRUE
    /\ ndirect = 0
    /\ paused = FALSE
    /\ tfile \in BOOLEAN
    /\ logfile_closed = FALSE
    /\ logfile = <<>>
    /\ nitems = 0
    /\ exception = "none"
    /\ last_call = [op |-> "__init__", arg |-> <<>>]
    /\ pre_pause = <<>>
    /\ pause_added = <<>>
    /\ pause_cleared = FALSE
    /\ pause_refiltered = FALSE
    /\ ReportIdle

\* ---- operations ----
\* the history variables describe the pause in progress or the one that has
\* just ended; the first call after a resume forgets them
no_history ==
    /\ pre_pause' = <<>> /\ pause_added' = <<>>
    /\ pause_cleared' = FALSE /\ pause_refiltered' = FALSE
keep_history == IF paused THEN UNCHANGED history ELSE no_history

\* the unpaused branch of write / write_level: the new item goes to
\* unfiltered_list and, when it passes the filter, to filtered_list; a
\* raising append_truncate ends the branch
append_live(log) ==
    /\ no_history
    /\ IF append_truncate_raises(unfiltered_list)
       THEN UNCHANGED buffers
       ELSE /\ unfiltered_list' = append_truncate(unfiltered_list, log)
            /\ UNCHANGED paused_buffer
            /\ IF /\ matches_log_level_filter(log, log_level_filter)
                  /\ ~append_truncate_raises(filtered_list)
               THEN filtered_list' = append_truncate(filtered_list, log)
               ELSE UNCHANGED filtered_list

\* append_paused with _paused_buffer and unfiltered_list sharing one list
append_paused_shared(log) ==
    /\ pause_added' = <<log>> \o pause_added
    /\ UNCHANGED <<pre_pause, pause_cleared, pause_refiltered>>
    /\ paused_buffer' = append_truncate(paused_buffer, log)
    /\ unfiltered_list' = append_truncate(unfiltered_list, log)
    /\ UNCHANGED filtered_list

\* the paused branch of write / write_level: the new item goes to
\* _paused_buffer alone
append_paused(log) ==
    /\ pause_added' = <<log>> \o pause_added
    /\ UNCHANGED <<pre_pause, pause_cleared, pause_refiltered>>
    /\ IF append_truncate_raises(paused_buffer)
       THEN UNCHANGED buffers
       ELSE /\ paused_buffer' = append_truncate(paused_buffer, log)
            /\ UNCHANGED <<unfiltered_list, filtered_list>>

\* the exception the append_truncate calls of write / write_level let out
append_exception(log) ==
    IF paused THEN append_truncate_exception(paused_buffer)
    ELSE IF append_truncate_raises(unfiltered_list)
    THEN append_truncate_exception(unfiltered_list)
    ELSE IF matches_log_level_filter(log, log_level_filter)
    THEN append_truncate_exception(filtered_list)
    ELSE "none"

\* OutputList.write(s); logfile.write on a closed file raises ValueError
write(s) ==
    /\ UNCHANGED <<max_len_none, ndirect, logfile_closed, rvars>>
    /\ accepted(s) => nitems < MaxItems
    /\ last_call' = [op |-> "write", arg |-> s]
    /\ UNCHANGED <<log_level_filter, max_len, paused, tfile>>
    /\ IF accepted(s)
       THEN LET log == LogItem(s, CONSOLE_LOG_LEVEL) IN
            /\ nitems' = nitems + 1
            /\ IF paused THEN append_paused(log) ELSE append_live(log)
            /\ IF append_exception(log) # "none"
               THEN exception' = append_exception(log) /\ UNCHANGED logfile
               ELSE IF tfile /\ logfile_closed
               THEN exception' = "ValueError" /\ UNCHANGED logfile
               ELSE /\ exception' = "none"
                    /\ logfile' = IF tfile
                                  THEN Append(logfile, print_to_log(log))
                                  ELSE logfile
       ELSE keep_history /\ UNCHANGED <<buffers, logfile, nitems>> /\ exception' = "none"

\* OutputList.write_level(s, level)
write_level(s, level) ==
    /\ UNCHANGED <<max_len_none, ndirect, logfile_closed, rvars>>
    /\ accepted(s) => nitems < MaxItems
    /\ last_call' = [op |-> "write_level", arg |-> s]
    /\ UNCHANGED <<log_level_filter, max_len, paused, tfile>>
    /\ UNCHANGED logfile
    /\ IF accepted(s)
       THEN LET log == LogItem(s, level) IN
            /\ nitems' = nitems + 1
            /\ IF paused THEN append_paused(log) ELSE append_live(log)
            /\ exception' = append_exception(log)
       ELSE keep_history /\ UNCHANGED <<buffers, nitems>> /\ exception' = "none"

\* OutputList.close(): closes the log file if one was opened; closing a
\* closed file does nothing
close ==
    /\ UNCHANGED <<max_len_none, ndirect, rvars>>
    /\ last_call' = [op |-> "close", arg |-> <<>>]
    /\ logfile_closed' = (tfile \/ logfile_closed)
    /\ keep_history
    /\ UNCHANGED <<buffers, log_level_filter, max_len, paused, tfile, logfile,
                   nitems>> /\ exception' = "none"

\* clear() leaving _paused_buffer as it is
clear_keeps_paused_buffer ==
    /\ UNCHANGED <<max_len_none, ndirect, logfile_closed, rvars>>
    /\ last_call' = [op |-> "clear", arg |-> <<>>]
    /\ filtered_list' = <<>>
    /\ unfiltered_list' = <<>>
    /\ IF paused
       THEN /\ pre_pause' = <<>> /\ pause_added' = <<>> /\ pause_cleared' = TRUE
            /\ UNCHANGED pause_refiltered
       ELSE no_history
    /\ UNCHANGED <<paused_buffer, log_level_filter, max_len, paused, tfile,
                   logfile, nitems>> /\ exception' = "none"

\* OutputList.clear()
clear ==
    /\ UNCHANGED <<max_len_none, ndirect, logfile_closed, rvars>>
    /\ last_call' = [op |-> "clear", arg |-> <<>>]
    /\ paused_buffer' = <<>>
    /\ filtered_list' = <<>>
    /\ unfiltered_list' = <<>>
    /\ IF paused
       THEN /\ pre_pause' = <<>> /\ pause_added' = <<>> /\ pause_cleared' = TRUE
            /\ UNCHANGED pause_refiltered
       ELSE no_history
    /\ UNCHANGED <<log_level_filter, max_len, paused, tfile, logfile, nitems>> /\ exception' = "none"

\* log_level_filter = level.  Traits calls _log_level_filter_changed() when
\* the value changes; an assignment of the current level runs no handler and
\* leaves the filtered view as it is
log_level_filter_changed(level) ==
    /\ UNCHANGED <<max_len_none, ndirect, logfile_closed, rvars>>
    /\ last_call' = [op |-> "log_level_filter", arg |-> level]
    /\ log_level_filter' = level
    /\ IF level # log_level_filter
       THEN /\ filtered_list' = filter_items(unfiltered_list, level)
            /\ IF paused
               THEN /\ pause_refiltered' = TRUE
                    /\ UNCHANGED <<pre_pause, pause_added, pause_cleared>>
               ELSE no_history
       ELSE UNCHANGED filtered_list /\ keep_history
    /\ UNCHANGED <<unfiltered_list, paused_buffer, max_len, paused, tfile,
                   logfile, nitems>>
    /\ exception' = "none"

\* _paused_changed() without the reset of _paused_buffer on resume
paused_changed_keeps_buffer(value) ==
    /\ UNCHANGED <<max_len_none, ndirect, logfile_closed, rvars>>
    /\ value # paused
    /\ last_call' = [op |-> "paused", arg |-> value]
    /\ paused' = value
    /\ IF value
       THEN /\ paused_buffer' = unfiltered_list
            /\ pre_pause' = unfiltered_list
            /\ pause_added' = <<>>
            /\ pause_cleared' = FALSE
            /\ pause_refiltered' = FALSE
            /\ UNCHANGED <<unfiltered_list, filtered_list>>
       ELSE /\ unfiltered_list' = paused_buffer
            /\ filtered_list' = filter_items(paused_buffer, log_level_filter)
            /\ UNCHANGED <<paused_buffer, history>>
    /\ UNCHANGED <<log_level_filter, max_len, tfile, logfile, nitems>> /\ exception' = "none"

\* _paused_changed() without the refiltering on resume
paused_changed_no_refilter(value) ==
    /\ UNCHANGED <<max_len_none, ndirect, logfile_closed, rvars>>
    /\ value # paused
    /\ last_call' = [op |-> "paused", arg |-> value]
    /\ paused' = value
    /\ IF value
       THEN /\ paused_buffer' = unfiltered_list
            /\ pre_pause' = unfiltered_list
            /\ pause_added' = <<>>
            /\ pause_cleared' = FALSE
            /\ pause_refiltered' = FALSE
            /\ UNCHANGED <<unfiltered_list, filtered_list>>
       ELSE /\ unfiltered_list' = paused_buffer
            /\ paused_buffer' = <<>>
            /\ UNCHANGED <<filtered_list, history>>
    /\ UNCHANGED <<log_level_filter, max_len, tfile, logfile, nitems>> /\ exception' = "none"

\* paused = value, the value changing: _paused_changed()
paused_changed(value) ==
    /\ UNCHANGED <<max_len_none, ndirect, logfile_closed, rvars>>
    /\ value # paused
    /\ last_call' = [op |-> "paused", arg |-> value]
    /\ paused' = value
    /\ IF value
       THEN /\ paused_buffer' = unfiltered_list
            /\ pre_pause' = unfiltered_list
            /\ pause_added' = <<>>
            /\ pause_cleared' = FALSE
            /\ pause_refiltered' = FALSE
            /\ UNCHANGED <<unfiltered_list, filtered_list>>
       ELSE /\ unfiltered_list' = paused_buffer
            /\ filtered_list' = filter_items(paused_buffer, log_level_filter)
            /\ paused_buffer' = <<>>
            /\ UNCHANGED history
    /\ UNCHANGED <<log_level_filter, max_len, tfile, logfile, nitems>> /\ exception' = "none"

\* the lists append_truncate is called on
BufferNames == {"unfiltered_list", "_paused_buffer", "filtered_list"}
\* the list of that name
buffer_named(name) ==
    IF name = "unfiltered_list" THEN unfiltered_list
    ELSE IF name = "_paused_buffer" THEN paused_buffer
    ELSE filtered_list

\* OutputList.append_truncate(buffer, LogItem(s, level)) called on its own,
\* buffer being one of the three lists
append_truncate_call(name, s, level) ==
    /\ UNCHANGED <<max_len_none, logfile_closed, rvars>>
    /\ nitems < MaxItems
    /\ ndirect < MaxDirect
    /\ ndirect' = ndirect + 1
    /\ last_call' = [op |-> "append_truncate", arg |-> s]
    /\ nitems' = nitems + 1
    /\ exception' = append_truncate_exception(buffer_named(name))
    /\ LET log == LogItem(s, level)
           new == IF append_truncate_raises(buffer_named(name))
                  THEN buffer_named(name)
                  ELSE append_truncate(buffer_named(name), log) IN
       /\ unfiltered_list' = IF name = "unfiltered_list" THEN new ELSE unfiltered_list
       /\ paused_buffer' = IF name = "_paused_buffer" THEN new ELSE paused_buffer
       /\ filtered_list' = IF name = "filtered_list" THEN new ELSE filtered_list
       /\ IF paused /\ name = "_paused_buffer"
          THEN /\ pause_added' = <<log>> \o pause_added
               /\ UNCHANGED <<pre_pause, pause_cleared, pause_refiltered>>
          ELSE keep_history
    /\ UNCHANGED <<log_level_filter, max_len, paused, tfile, logfile>>

\* max_len = value, an integer, after construction; no handler observes it
max_len_changed(value) ==
    /\ UNCHANGED <<logfile_closed, rvars>>
    /\ ndirect < MaxDirect
    /\ ndirect' = ndirect + 1
    /\ (max_len_none \/ value # max_len)
    /\ last_call' = [op |-> "max_len", arg |-> <<>>]
    /\ max_len' = value
    /\ max_len_none' = FALSE
    /\ exception' = "none"
    /\ keep_history
    /\ UNCHANGED <<buffers, log_level_filter, paused, tfile, logfile, nitems>>

\* max_len = None after construction
max_len_unset ==
    /\ UNCHANGED <<logfile_closed, rvars>>
    /\ ndirect < MaxDirect
    /\ ndirect' = ndirect + 1
    /\ ~max_len_none
    /\ last_call' = [op |-> "max_len", arg |-> <<>>]
    /\ max_len' = 0
    /\ max_len_none' = TRUE
    /\ exception' = "none"
    /\ keep_history
    /\ UNCHANGED <<buffers, log_level_filter, paused, tfile, logfile, nitems>>

\* the operations on the list: appends, clear, threshold, pause and close,
\* with max_len as it was configured
NextOperations ==
    \/ \E s \in Messages : write(s)
    \/ \E s \in Messages, level \in WriteLevels : write_level(s, level)
    \/ clear
    \/ \E level \in SYSLOG_LEVELS : log_level_filter_changed(level)
    \/ \E value \in BOOLEAN : paused_changed(value)
    \/ close

\* every public method and trait of the OutputList
Next ==
    \/ NextOperations
    \/ \E name \in BufferNames, level \in WriteLevels :
           append_truncate_call(name, <<"a", " ">>, level)
    \/ \E value \in MaxLens : max_len_changed(value)
    \/ max_len_unset

Spec == Init /\ [][Next]_vars

\* the operations on a list whose max_len is any integer, as configured
SpecOperations == Init /\ [][NextOperations]_vars

\* the OutputList with max_len = None
SpecUnset == InitUnset /\ [][NextOperations]_vars

\* the OutputList with max_len an integer that can be a length
SpecSized == InitSized /\ [][NextOperations]_vars


\* ================= settings_report.py =================
\* Python values: a str or an int carries its text, a dict its entries in
\* iteration order, each a key and a value
PyStr(v) == [t |-> "str", v |-> v]
PyInt(v) == [t |-> "int", v |-> v]
PyDict(items) == [t |-> "dict", items |-> items]
Entry(k, x) == [k |-> k, x |-> x]

\* the outcome of evaluating an expression: a value, or an exception
Value(val) == [exc |-> "none", val |-> val]
Raise(exc) == [exc |-> exc, val |-> <<>>]

\* requests.codes.ok
CODES_OK == 200
\* the response statuses explored
Statuses == {200, 201, 404}
\* what requests.post does: raises, or returns a response with a status
Responses ==
    {[called |-> TRUE, raised |-> TRUE, status_code |-> 0]} \cup
    {[called |-> TRUE, raised |-> FALSE, status_code |-> s] : s \in Statuses}
\* requests.post was not called
NoResponse == [called |-> FALSE, raised |-> FALSE, status_code |-> 0]

\* the settings a SettingsReport is built with
GoodInfo == Entry(PyStr("system_info"), PyDict(<<Entry(PyStr("uuid"), PyStr("u1"))>>))
SettingsInputs == {
    PyDict(<<>>),
    PyDict(<<GoodInfo>>),
    PyDict(<<Entry(PyStr("system_info"),
                   PyDict(<<Entry(PyStr("uuid"), PyInt("7")),
                           Entry(PyStr("name"), PyStr("x"))>>))>>),
    PyDict(<<Entry(PyStr("system_info"), PyDict(<<>>))>>),
    PyDict(<<Entry(PyStr("system_info"), PyStr("x"))>>),
    PyDict(<<GoodInfo, Entry(PyInt("1"), PyStr("x"))>>),
    PyDict(<<GoodInfo,
             Entry(PyStr("a"), PyDict(<<Entry(PyStr("b"),
                                              PyDict(<<Entry(PyStr("c"), PyInt("7"))>>))>>))>>),
    PyDict(<<GoodInfo,
             Entry(PyStr("a"), PyDict(<<Entry(PyInt("1"), PyInt("2"))>>))>>),
    PyStr("x")
}
\* the arguments post_data is called with directly
UuidInputs == {PyStr("u1"), PyInt("7")}
DataInputs == {PyDict(<<Entry(PyStr("k"), PyStr("v"))>>), PyDict(<<>>), PyStr("x")}

\* str(x): an int's text as a str; a str as it is
str(x) == IF x.t = "dict" THEN PyStr("{...}") ELSE PyStr(x.v)

\* d[key] with key a str
getitem(d, key) ==
    IF d.t # "dict" THEN Raise("TypeError")
    ELSE LET hits == {i \in 1..Len(d.items) : d.items[i].k = PyStr(key)} IN
         IF hits = {} THEN Raise("KeyError")
         ELSE Value(d.items[CHOOSE i \in hits : TRUE].x)

RECURSIVE dict_values_to_strings(_), convert_entries(_)
\* the loop body of dict_values_to_strings, over the entries left
convert_entries(entries) ==
    IF entries = <<>> THEN Value(<<>>)
    ELSE LET e == Head(entries) IN
         IF e.k.t # "str" THEN Raise("TypeError")
         ELSE LET x == IF e.x.t = "dict"
                       THEN dict_values_to_strings(e.x)
                       ELSE Value(str(e.x)) IN
              IF x.exc # "none" THEN x
              ELSE LET rest == convert_entries(Tail(entries)) IN
                   IF rest.exc # "none" THEN rest
                   ELSE Value(<<Entry(e.k, x.val)>> \o rest.val)

\* dict_values_to_strings(d); d.iteritems() exists for a Python 2 dict only
dict_values_to_strings(d) ==
    IF d.t # "dict" \/ ~dict_iteritems THEN Raise("AttributeError")
    ELSE LET r == convert_entries(d.items) IN
         IF r.exc # "none" THEN r ELSE Value(PyDict(r.val))

\* json.dumps((uuid, data)): a two-element array
json_dumps(uuid, data) == <<uuid.v, data>>

\* the status test of post_data, negated: the POST counts as successful
status_is_ok(status_code) == status_code = CODES_OK

\* an effect: the exception raised if any, the lines printed, the bodies POSTed
Effect(exc, lines, bodies) == [exc |-> exc, printed |-> lines, posted |-> bodies]

\* post_data without its two isinstance checks
post_data_unchecked(uuid, data, response) ==
    IF response.raised
    THEN Effect("RequestException", <<>>, <<json_dumps(uuid, data)>>)
    ELSE IF ~status_is_ok(response.status_code)
    THEN Effect("none", <<"post data: failed to post data">>, <<json_dumps(uuid, data)>>)
    ELSE Effect("none", <<>>, <<json_dumps(uuid, data)>>)

\* post_data(uuid, data), requests.post doing response
post_data(uuid, data, response) ==
    IF uuid.t # "str"
    THEN Effect("none", <<"post data: uuid is not a string">>, <<>>)
    ELSE IF data.t # "dict"
    THEN Effect("none", <<"post data: data is not a dict">>, <<>>)
    ELSE IF response.raised
    THEN Effect("RequestException", <<>>, <<json_dumps(uuid, data)>>)
    ELSE IF ~status_is_ok(response.status_code)
    THEN Effect("none", <<"post data: failed to post data">>, <<json_dumps(uuid, data)>>)
    ELSE Effect("none", <<>>, <<json_dumps(uuid, data)>>)

\* the try block of report_settings
report_try(response) ==
    LET info == getitem(settings, "system_info") IN
    IF info.exc # "none" THEN Effect(info.exc, <<"reporting settings">>, <<>>)
    ELSE LET uuid == getitem(info.val, "uuid") IN
    IF uuid.exc # "none" THEN Effect(uuid.exc, <<"reporting settings">>, <<>>)
    ELSE LET data == dict_values_to_strings(settings) IN
    IF data.exc # "none" THEN Effect(data.exc, <<"reporting settings">>, <<>>)
    ELSE LET post == post_data(str(uuid.val), data.val, response) IN
    IF post.exc # "none"
    THEN Effect(post.exc, <<"reporting settings">> \o post.printed, post.posted)
    ELSE Effect("none", <<"reporting settings">> \o post.printed \o <<"reported settings">>,
                post.posted)

\* an except clause naming the errors of malformed settings only
except_catches_input_errors(exc) == exc \in {"KeyError", "TypeError", "AttributeError"}

\* the bare "except:" of report_settings catches every exception
except_catches(exc) == TRUE

\* the response recorded for a call: none when requests.post was not called
response_of(effect, response) == IF effect.posted = <<>> THEN NoResponse ELSE response

\* SettingsReport(settings) was built; nothing was reported yet
InitReport ==
    /\ unfiltered_list = <<>>
    /\ paused_buffer = <<>>
    /\ filtered_list = <<>>
    /\ log_level_filter = LOG_ERROR
    /\ max_len = MaxLen
    /\ max_len_none = FALSE
    /\ ndirect = 0
    /\ paused = FALSE
    /\ tfile = FALSE
    /\ logfile_closed = FALSE
    /\ logfile = <<>>
    /\ nitems = 0
    /\ exception = "none"
    /\ last_call = [op |-> "__init__", arg |-> <<>>]
    /\ pre_pause = <<>>
    /\ pause_added = <<>>
    /\ pause_cleared = FALSE
    /\ pause_refiltered = FALSE
    /\ settings \in SettingsInputs
    /\ dict_iteritems \in BOOLEAN
    /\ report_call = [op |-> "__init__", uuid |-> PyStr(""), data |-> PyStr(""),
                      response |-> NoResponse]
    /\ printed = <<>>
    /\ result = "none"
    /\ posts = <<>>

\* SettingsReport.report_settings()
report_settings(response) ==
    /\ Len(posts) < MaxPosts
    /\ LET try == report_try(response) IN
       /\ report_call' = [op |-> "report_settings", uuid |-> PyStr(""), data |-> PyStr(""),
                          response |-> response_of(try, response)]
       /\ posts' = posts \o try.posted
       /\ IF try.exc = "none"
          THEN printed' = try.printed /\ result' = "returned"
          ELSE IF except_catches(try.exc)
          THEN /\ printed' = try.printed \o <<"report settings: failed to report settings">>
               /\ result' = "returned"
          ELSE printed' = try.printed /\ result' = try.exc
    /\ UNCHANGED <<settings, dict_iteritems, ovars, max_len_none, ndirect>>

\* post_data(uuid, data) called on its own
post_data_call(uuid, data, response) ==
    /\ Len(posts) < MaxPosts
    /\ LET post == post_data(uuid, data, response) IN
       /\ report_call' = [op |-> "post_data", uuid |-> uuid, data |-> data,
                          response |-> response_of(post, response)]
       /\ posts' = posts \o post.posted
       /\ printed' = post.printed
       /\ result' = IF post.exc = "none" THEN "returned" ELSE post.exc
    /\ UNCHANGED <<settings, dict_iteritems, ovars, max_len_none, ndirect>>

NextReport ==
    \/ \E response \in Responses : report_settings(response)
    \/ \E uuid \in UuidInputs, data \in DataInputs, response \in Responses :
           post_data_call(uuid, data, response)

\* the settings reporter
SpecReport == InitReport /\ [][NextReport]_vars

\* ---- vocabulary of the properties ----
AppendOps == {"write", "write_level"}
Min(a, b) == IF a <= b THEN a ELSE b
IsPrefix(p, q) == Len(p) <= Len(q) /\ SubSeq(q, 1, Len(p)) = p
\* the items of buffer whose level is at most threshold, in order
PassingItems(buffer, threshold) ==
    SelectSeq(buffer, LAMBDA e : e.log_level <= threshold)
\* empty or whitespace-only text
Blank(s) == \A i \in 1..Len(s) : s[i] \in Whitespace
\* the state right after a resume (paused went from TRUE to FALSE)
JustResumed == last_call.op = "paused" /\ ~paused

\* C1: the length of the live buffer never exceeds max_len.
\* (Violated: append_truncate evicts only once the buffer is already longer
\* than max_len, so the live buffer settles at max_len + 1 items.)
C1_LiveWithinMaxLen == Len(unfiltered_list) <= max_len

\* C2: in every reachable state the filtered view equals, in order, the
\* items of the live buffer whose level is at most the threshold.
\* (Violated: an item evicted from the live buffer stays in the filtered
\* view until the filtered view itself overflows.)
C2_FilteredIsFilterOfLive ==
    filtered_list = PassingItems(unfiltered_list, log_level_filter)

\* C3: pause, N accepted appends e1..eN, resume (no clear in between) ends
\* with the live buffer a prefix of [eN..e1] followed by the pre-pause
\* buffer B; items are missing only at the oldest end, and only when the
\* whole sequence is longer than max_len.
C3_ResumePrependsPausedItems ==
    (JustResumed /\ ~pause_cleared) =>
        LET full == pause_added \o pre_pause IN
        /\ IsPrefix(unfiltered_list, full)
        /\ Len(unfiltered_list) >= Min(Len(full), max_len)

\* C3 happens: a resume after two appends onto a non-empty buffer, with the
\* cap having dropped the oldest item
C3_Witness ==
    /\ JustResumed /\ ~pause_cleared
    /\ Len(pause_added) >= 2 /\ Len(pre_pause) >= 1
    /\ unfiltered_list # <<>> /\ Head(unfiltered_list) = Head(pause_added)
    /\ Len(unfiltered_list) < Len(pause_added) + Len(pre_pause)

\* C4: while paused, an append leaves the live buffer and the filtered view
\* unchanged; an accepted item goes to the front of the pause buffer only.
C4_PausedAppendDiverted ==
    [][(paused /\ last_call'.op \in AppendOps) =>
          /\ unfiltered_list' = unfiltered_list
          /\ filtered_list' = filtered_list
          /\ ~Blank(last_call'.arg) =>
                /\ paused_buffer' # <<>>
                /\ Head(paused_buffer').timestamp = nitems'
                /\ Head(paused_buffer').msg = last_call'.arg
                /\ nitems' = nitems + 1
                /\ IsPrefix(Tail(paused_buffer'), paused_buffer)]_vars

\* C4 happens: an accepted write_level while paused over a non-empty live
\* buffer, whose item the filter would pass
C4_Witness ==
    /\ paused /\ last_call.op = "write_level" /\ ~Blank(last_call.arg)
    /\ pause_added # <<>> /\ paused_buffer # <<>>
    /\ Head(paused_buffer) = Head(pause_added)
    /\ Head(paused_buffer).log_level <= log_level_filter
    /\ unfiltered_list # <<>> /\ unfiltered_list = pre_pause

\* C5: an accepted append while not paused puts the new item at the front
\* of the filtered view if and only if its level is at most the threshold;
\* otherwise the filtered view is left as it was.
C5_FilteredInsertIffPasses ==
    [][(~paused /\ last_call'.op \in AppendOps /\ ~Blank(last_call'.arg)) =>
          /\ unfiltered_list' # <<>>
          /\ Head(unfiltered_list').timestamp = nitems'
          /\ IF Head(unfiltered_list').log_level <= log_level_filter
             THEN /\ filtered_list' # <<>>
                  /\ Head(filtered_list') = Head(unfiltered_list')
                  /\ IsPrefix(Tail(filtered_list'), filtered_list)
             ELSE filtered_list' = filtered_list]_vars

\* C5 happens, as in the example: with threshold ERROR, a WARNING item then
\* an ERROR item were appended and the filtered view holds the ERROR item only
C5_Witness ==
    /\ ~paused /\ last_call.op = "write_level" /\ log_level_filter = LOG_ERROR
    /\ Len(unfiltered_list) = 2
    /\ unfiltered_list[1].log_level = LOG_ERROR /\ unfiltered_list[1].timestamp = 2
    /\ unfiltered_list[2].log_level = LOG_WARN /\ unfiltered_list[2].timestamp = 1
    /\ filtered_list = <<unfiltered_list[1]>>

\* the items of a sequence, as a set
Items(buffer) == {buffer[i] : i \in 1..Len(buffer)}

\* C6: an append of an empty or whitespace-only message, by write or
\* write_level, paused or not, changes none of the live buffer, the pause
\* buffer and the filtered view, creates no item and writes no log line.
C6_BlankAppendIgnored ==
    [][(last_call'.op \in AppendOps /\ Blank(last_call'.arg)) =>
          /\ unfiltered_list' = unfiltered_list
          /\ paused_buffer' = paused_buffer
          /\ filtered_list' = filtered_list
          /\ logfile' = logfile
          /\ nitems' = nitems]_vars

\* C6 happens: a whitespace-only write() with the log file enabled, while
\* paused with items in the pause buffer and lines in the log file
C6_Witness ==
    /\ last_call.op = "write" /\ last_call.arg = <<" ">>
    /\ tfile /\ logfile # <<>>
    /\ paused /\ pause_added # <<>> /\ paused_buffer # <<>>

\* C7: setting the threshold to level, in any reachable state, paused or
\* not, sets the threshold and makes the filtered view the in-order items of
\* the live buffer (not of the pause buffer) with level at most level; the
\* live buffer and the pause buffer are unchanged.
\* (Violated: setting the threshold to the level it already has runs no
\* handler, so a view that holds an item the live buffer has evicted, the
\* divergence of C2, is not rebuilt.)
C7_ThresholdChangeRebuilds ==
    [][(last_call'.op = "log_level_filter") =>
          /\ log_level_filter' = last_call'.arg
          /\ filtered_list' = PassingItems(unfiltered_list, last_call'.arg)
          /\ unfiltered_list' = unfiltered_list
          /\ paused_buffer' = paused_buffer]_vars

\* C8: right after a resume the filtered view is the in-order items of the
\* new live buffer that pass the current threshold.
C8_ResumeRebuildsFiltered ==
    JustResumed => filtered_list = PassingItems(unfiltered_list, log_level_filter)

\* C8 happens: a resume after a pause during which the threshold was
\* changed, the live buffer holding an item appended during the pause that
\* passes and an item that the threshold masks
C8_Witness ==
    /\ JustResumed /\ pause_refiltered /\ pause_added # <<>>
    /\ \E e \in Items(pause_added) : e \in Items(filtered_list)
    /\ \E e \in Items(unfiltered_list) : e.log_level > log_level_filter

\* C9: clear(), paused or not, leaves the three buffers empty and the
\* paused flag and the threshold unchanged; a resume after a clear made
\* during the pause yields a live buffer of items appended after the clear.
C9_ClearEmptiesAll ==
    [][/\ (last_call'.op = "clear") =>
             /\ unfiltered_list' = <<>>
             /\ paused_buffer' = <<>>
             /\ filtered_list' = <<>>
             /\ paused' = paused
             /\ log_level_filter' = log_level_filter
       /\ (paused /\ ~paused' /\ pause_cleared) =>
             /\ IsPrefix(unfiltered_list', pause_added)
             /\ Len(unfiltered_list') >= Min(Len(pause_added), max_len)]_vars

\* C9 happens: a resume after a clear during the pause, with items appended
\* after the clear and older items gone
C9_Witness ==
    /\ JustResumed /\ pause_cleared
    /\ pause_added # <<>> /\ unfiltered_list = pause_added
    /\ unfiltered_list[Len(unfiltered_list)].timestamp > 1

\* C10: with the log file enabled, every item created by write or
\* write_level produces one log line: the number of lines equals the number
\* of items created.
\* (Violated: write_level never writes to the log file.)
C10_OneLogLinePerItem == tfile => Len(logfile) = nitems

\* C11: with max_len an integer, each of the live buffer, the pause buffer
\* and the filtered view has at most max_len + 1 items in every reachable
\* state, and the assert of append_truncate never fails.
C11_BuffersWithinOneOver ==
    /\ Len(unfiltered_list) <= max_len + 1
    /\ Len(paused_buffer) <= max_len + 1
    /\ Len(filtered_list) <= max_len + 1
    /\ exception # "AssertionError"

\* C11 happens: all three buffers hold max_len + 1 items after an append
\* that had to evict
C11_Witness ==
    /\ last_call.op \in AppendOps /\ paused /\ nitems > max_len + 1
    /\ Len(unfiltered_list) = max_len + 1
    /\ Len(paused_buffer) = max_len + 1
    /\ Len(filtered_list) = max_len + 1
    /\ paused_buffer # unfiltered_list

\* C14: with max_len unset (None) every accepted append succeeds without
\* error and evicts nothing.
\* (Violated: append_truncate compares len(buffer) with None and raises
\* TypeError on the first accepted append.)
C14_UnsetMaxLenNeverRaises == max_len_none => ~raised

\* the timestamps of buffer go down by one from item to item
Contiguous(buffer) ==
    \A i \in 1..(Len(buffer) - 1) : buffer[i].timestamp = buffer[i + 1].timestamp + 1

\* C15: the live buffer is ordered newest-first and is a contiguous run of
\* accepted items: no item is kept while a newer one is missing.  Unpaused,
\* the run ends with the item created last; paused, the pause buffer does.
C15_LiveIsNewestRun ==
    /\ Contiguous(unfiltered_list)
    /\ (~paused /\ unfiltered_list # <<>>) => Head(unfiltered_list).timestamp = nitems
    /\ paused => Contiguous(paused_buffer)
    /\ (paused /\ paused_buffer # <<>>) => Head(paused_buffer).timestamp = nitems

\* C15 as stated: in every reachable state, paused or not, the live buffer
\* is a contiguous run ending with the most recently accepted item.
\* (Violated while paused: items accepted during the pause are held in the
\* pause buffer until the resume.)
C15_LiveHoldsNewestAlways ==
    /\ Contiguous(unfiltered_list)
    /\ unfiltered_list # <<>> => Head(unfiltered_list).timestamp = nitems

\* C15 happens: right after a resume the live buffer is full, older items
\* were evicted, and it holds items from before and from during the pause
C15_Witness ==
    /\ JustResumed /\ ~pause_cleared
    /\ Len(unfiltered_list) = max_len + 1 /\ nitems > max_len + 1
    /\ pause_added # <<>> /\ Head(pause_added) \in Items(unfiltered_list)
    /\ pre_pause # <<>> /\ Head(pre_pause) \in Items(unfiltered_list)
    /\ unfiltered_list[Len(unfiltered_list)].timestamp > 1

\* C16: for every threshold, an accepted write() while not paused puts its
\* console-origin item at the front of the filtered view, and every rebuild
\* of the filtered view (threshold change, resume) keeps all console-origin
\* items of the live buffer.
C16_ConsoleUnmaskable ==
    [][/\ (~paused /\ last_call'.op = "write" /\ ~Blank(last_call'.arg)) =>
             /\ filtered_list' # <<>>
             /\ Head(filtered_list').timestamp = nitems'
             /\ Head(filtered_list').log_level = CONSOLE_LOG_LEVEL
       /\ (last_call'.op = "log_level_filter" \/ (paused /\ ~paused')) =>
             \A e \in Items(unfiltered_list') :
                 e.log_level = CONSOLE_LOG_LEVEL => e \in Items(filtered_list')]_vars

\* C16 happens: the threshold was lowered to ERROR, the strictest, and the
\* rebuilt view keeps a console-origin item while masking a WARNING
C16_Witness ==
    /\ last_call.op = "log_level_filter" /\ log_level_filter = LOG_ERROR
    /\ \E e \in Items(filtered_list) : e.log_level = CONSOLE_LOG_LEVEL
    /\ \E e \in Items(unfiltered_list) :
           e.log_level = LOG_WARN /\ e \notin Items(filtered_list)

\* C18: every item of the filtered view has a level at most the current
\* threshold, in every reachable state.
C18_FilteredItemsPass ==
    \A e \in Items(filtered_list) : e.log_level <= log_level_filter

\* C18 happens: a WARNING item was in the view under threshold WARNING and
\* the threshold then went down to ERROR while paused
C18_Witness ==
    /\ paused /\ pause_refiltered /\ log_level_filter = LOG_ERROR
    /\ last_call.op = "log_level_filter"
    /\ \E e \in Items(unfiltered_list) : e.log_level = LOG_WARN
    /\ \E e \in Items(unfiltered_list) : e.log_level = LOG_ERROR
    /\ filtered_list # <<>>

\* C19: the items of the live buffer that pass the threshold are, in order,
\* a prefix of the filtered view.
C19_PassingLiveIsPrefixOfFiltered ==
    IsPrefix(PassingItems(unfiltered_list, log_level_filter), filtered_list)

\* C19 happens: the filtered view holds more than the passing items of the
\* live buffer, which are not empty
C19_Witness ==
    /\ PassingItems(unfiltered_list, log_level_filter) # <<>>
    /\ Len(filtered_list) > Len(PassingItems(unfiltered_list, log_level_filter))
    /\ Len(unfiltered_list) = max_len + 1

\* C20: whenever paused is false the pause buffer is empty.
C20_PauseBufferEmptyUnpaused == ~paused => paused_buffer = <<>>

\* C20 happens: right after a resume that moved items appended during the
\* pause into the live buffer
C20_Witness ==
    /\ JustResumed /\ pause_added # <<>>
    /\ unfiltered_list # <<>> /\ Head(unfiltered_list) = Head(pause_added)
    /\ paused_buffer = <<>>

\* ---- the settings reporter ----
\* the last call printed this line
Printed(line) == \E i \in 1..Len(printed) : printed[i] = line
\* d is a dict with this str key
HasKey(d, key) == d.t = "dict" /\ \E i \in 1..Len(d.items) : d.items[i].k = PyStr(key)
\* the value under a key d has
Lookup(d, key) == d.items[CHOOSE i \in 1..Len(d.items) : d.items[i].k = PyStr(key)].x
\* the settings have no settings['system_info']['uuid']
LacksIdentifier(s) ==
    \/ ~HasKey(s, "system_info")
    \/ ~HasKey(Lookup(s, "system_info"), "uuid")
RECURSIVE HasNonStringKey(_)
\* some key of the dict, at any depth, is not a str
HasNonStringKey(d) ==
    /\ d.t = "dict"
    /\ \E i \in 1..Len(d.items) :
           d.items[i].k.t # "str" \/ HasNonStringKey(d.items[i].x)
\* requests.post returned a response to the last call
GotResponse == report_call.response.called /\ ~report_call.response.raised

\* C12: report_settings returns normally whatever the settings are (no
\* system_info, no uuid, a non-string key, nested dicts, not a dict at all)
\* and whatever requests.post does (raises, a non-success status, success):
\* no exception reaches the caller.
C12_ReportNeverRaises ==
    report_call.op = "report_settings" => result = "returned"

\* report_settings returned normally although requests.post raised
C12_Witness ==
    /\ report_call.op = "report_settings"
    /\ report_call.response.called /\ report_call.response.raised
    /\ result = "returned"
    /\ printed = <<"reporting settings", "report settings: failed to report settings">>

\* C13: malformed input issues no POST: a post_data call whose uuid is not a
\* str or whose data is not a dict leaves the POSTs as they were, and so does
\* a report_settings call on settings that lack system_info/uuid or hold a
\* non-string key.
C13_MalformedInputNoPost ==
    [][/\ ( /\ report_call'.op = "post_data"
            /\ (report_call'.uuid.t # "str" \/ report_call'.data.t # "dict") )
          => posts' = posts
       /\ ( /\ report_call'.op = "report_settings"
            /\ (LacksIdentifier(settings) \/ HasNonStringKey(settings)) )
          => posts' = posts]_vars

\* post_data was called with a uuid that is not a str after a POST went out:
\* it printed its complaint and the POSTs are those of before
C13_Witness ==
    /\ report_call.op = "post_data"
    /\ report_call.uuid.t # "str"
    /\ report_call.data.t = "dict"
    /\ printed = <<"post data: uuid is not a string">>
    /\ result = "returned"
    /\ Len(posts) = 1

\* C17: post_data prints "post data: failed to post data" if and only if
\* the response status is outside the 2xx range.
\* (Violated: the code compares the status with requests.codes.ok, 200, so a
\* 201 response prints the failure line.)
C17_FailureIffNot2xx ==
    GotResponse =>
        (Printed("post data: failed to post data")
            <=> report_call.response.status_code \notin 200..299)

=============================================================================
